---- MODULE Spec2Model ----
(***************************************************************************)
(* Model of the question service's Kafka controller handleMatchingRequest  *)
(* (backend/question-service/model/question-model.js) together with the    *)
(* values it reads and the messages it publishes.                          *)
(***************************************************************************)
EXTENDS Integers, Sequences, FiniteSets, TLC

\* The question collection, and the state of each call of the Kafka
\* controller.
VARIABLES store, pc, message, queries, randomQuestion, err, sends, log

\* One call of an HTTP read handler (getRandomQuestion or getQuestion).
VARIABLES hpc, hreq, hqueries, hrow, hres

\* The calls of createQuestion and updateQuestion, and the image keys each
\* has destroyed at the image host.
VARIABLES cpc, creq, current, keysToDelete, writeArgs, updatedQuestion, cres,
          destroyed

busVars == <<pc, message, queries, randomQuestion, err, sends, log>>

VARIABLES form, saving, errors, uploading, uploads, fpc, api, saved
VARIABLES selectedDifficulty, selectedTopics, isQueueing, started

crudVars ==
  <<cpc, creq, current, keysToDelete, writeArgs, updatedQuestion, cres, destroyed>>

httpVars == <<hpc, hreq, hqueries, hrow, hres>>

\* The state of QuestionFormModal and the requests it has in flight.
formVars == <<form, saving, errors, uploading, uploads, fpc, api, saved>>

\* The state of PContent and of the parent that queues for a match.
matchVars == <<selectedDifficulty, selectedTopics, isQueueing, started>>

\* The state of the browser.
pageVars == <<formVars, matchVars>>

\* What the Kafka controller has no access to.
notBus == <<httpVars, crudVars, pageVars>>

\* What the HTTP read handlers leave alone besides the store.
notHttp == <<busVars, crudVars, pageVars>>

\* What createQuestion and updateQuestion have no access to.
notCrud == <<busVars, httpVars, pageVars>>

\* What QuestionFormModal has no access to.
notForm == <<store, busVars, httpVars, crudVars, matchVars>>

\* What PContent has no access to.
notMatch == <<store, busVars, httpVars, crudVars, formVars>>

vars == <<store, busVars, httpVars, crudVars, pageVars>>

----------------------------------------------------------------------------
(* Bounds *)

\* Number of matching requests delivered to the handler in one run.
NumRequests == 2

Requests == 1..NumRequests

\* Number of createQuestion / updateQuestion calls in one run.
NumCalls == 2

Calls == 1..NumCalls

----------------------------------------------------------------------------
(* JavaScript values: every value is tagged with its type. *)

Undefined == [t |-> "undefined"]

Null == [t |-> "null"]

Str(s) == [t |-> "string", v |-> s]

Num(n) == [t |-> "number", v |-> n]

Bool(b) == [t |-> "boolean", v |-> b]

Arr(s) == [t |-> "array", v |-> s]

Obj(r) == [t |-> "object", v |-> r]

\* ToBoolean: undefined, null and the empty string are falsy; arrays and
\* objects (an empty array included) are truthy.
Truthy(x) ==
  /\ x.t \notin {"undefined", "null"}
  /\ ~(x.t = "string" /\ x.v = "")
  /\ ~(x.t = "number" /\ x.v = 0)
  /\ ~(x.t = "boolean" /\ x.v = FALSE)

\* o.k for an object o: the own property, or undefined when it is absent.
Get(o, k) == IF o.t = "object" /\ k \in DOMAIN o.v THEN o.v[k] ELSE Undefined

\* Mutant: the last element is read.
Index0_Last(a) == IF a.t = "array" /\ Len(a.v) > 0 THEN a.v[Len(a.v)] ELSE Undefined

\* a[0]: the first element of an array, undefined when it has none.
Index0(a) == IF a.t = "array" /\ Len(a.v) > 0 THEN a.v[1] ELSE Undefined

\* Reading a property of undefined or null throws a TypeError.
ThrowsOnRead(x) == x.t \in {"undefined", "null"}

\* JSON.stringify, given as the value JSON.parse gives back from the text:
\* a property whose value is undefined is left out of an object, and an
\* undefined array element becomes null.
RECURSIVE JSONStringify(_)
JSONStringify(x) ==
  IF x.t = "object"
    THEN Obj([k \in {j \in DOMAIN x.v : x.v[j] # Undefined} |-> JSONStringify(x.v[k])])
  ELSE IF x.t = "array"
    THEN Arr([i \in 1..Len(x.v) |->
               IF x.v[i] = Undefined THEN Null ELSE JSONStringify(x.v[i])])
  ELSE x

----------------------------------------------------------------------------
(* Constants of the controller *)

\* Mutant: the list of the controller lacks a difficulty of the schema.
DIFFICULTIES_NoHard == {"Easy", "Medium"}

DIFFICULTIES == {"Easy", "Medium", "Hard"}

TOPICS == {"Strings", "Arrays", "Linked List", "Heaps", "Hashmap", "Greedy",
           "Graphs", "Dynamic Programming"}

ReplyTopic == "question-replies"

NoQuestionsMessage == "No questions found matching the criteria."

FoundMessage == "Question found successfully."

InternalErrorMessage == "An internal error occurred in the Question Service."

\* The fields formatQuestionResponse copies.
PublicFields == {"id", "title", "difficulty", "topics", "problemStatement",
                 "constraints", "examples", "codeSnippets", "entryPoint",
                 "timeout", "signature", "testCases"}

----------------------------------------------------------------------------
(* Question documents *)

\* A stored document: the schema's fields, the storage identifier _id and
\* the version key __v.
QuestionDoc(id, title, difficulty, topics) ==
  Obj([_id              |-> Str(id),
       __v              |-> Num(0),
       id               |-> Str(id),
       title            |-> Str(title),
       difficulty       |-> Str(difficulty),
       topics           |-> Arr(topics),
       problemStatement |-> Str("statement"),
       constraints      |-> Arr(<<>>),
       examples         |-> Arr(<<Obj([input |-> Str("1"), output |-> Str("1")])>>),
       entryPoint       |-> Str("solve"),
       timeout          |-> Num(1),
       testCases        |-> Arr(<<Obj([args |-> Arr(<<>>), expected |-> Num(1)])>>)])

Q1 == QuestionDoc("q1", "Course Schedule", "Easy", <<Str("Graphs"), Str("Arrays")>>)

Q2 == QuestionDoc("q2", "Clone Graph", "Easy", <<Str("Graphs")>>)

Q3 == QuestionDoc("q3", "Two Sum", "Hard", <<Str("Arrays")>>)

InitialStore == {Q1, Q2, Q3}

----------------------------------------------------------------------------
(* The repository's random query *)

\* Mutant: the difficulty is not part of the filter.
Matching_TopicOnly(docs, difficulty, topic) ==
  {q \in docs :
     \E i \in 1..Len(Get(q, "topics").v) : Get(q, "topics").v[i] = topic}

\* The documents a (difficulty, topic) query matches: the difficulty is equal
\* and the topic is one of the document's topics.
Matching(docs, difficulty, topic) ==
  {q \in docs :
     /\ Get(q, "difficulty") = difficulty
     /\ \E i \in 1..Len(Get(q, "topics").v) : Get(q, "topics").v[i] = topic}

\* The values findRandomQuestion may resolve to: an array holding one of the
\* matching documents, any of them; nothing (an empty array or null) when no
\* document matches.
findRandomQuestion(docs, difficulty, topic) ==
  LET m == Matching(docs, difficulty, topic) IN
    IF m = {} THEN {Null, Arr(<<>>)}
    ELSE {Arr(<<q>>) : q \in m}

\* The faults the store query may reject with.
StoreErrors == {"MongoNetworkError", "MongoServerSelectionError"}

\* The fault producer.send rejects with.
SendError == "KafkaJSError"

TypeError == "TypeError"

NoError == "none"

----------------------------------------------------------------------------
(* Inbound messages *)

Meta(difficulty, topics) == Obj([difficulty |-> difficulty, topics |-> topics])

Msg(correlationId, meta) == [correlationId |-> correlationId, meta |-> meta]

\* The messages the consumer hands to the handler.
Messages ==
  { Msg(Str("abc-1"), Undefined),
    Msg(Str("abc-1"), Obj([topics |-> Arr(<<Str("Graphs")>>)])),
    Msg(Str("abc-2"), Obj([difficulty |-> Str("Easy")])),
    Msg(Str("abc-2"), Meta(Str(""), Arr(<<Str("Graphs")>>))),
    Msg(Str("abc-1"), Meta(Str("Easy"), Arr(<<Str("Graphs")>>))),
    Msg(Str("abc-1"), Meta(Str("Easy"), Arr(<<Str("Graphs"), Str("Arrays")>>))),
    Msg(Str("abc-2"), Meta(Str("Hard"), Arr(<<Str("Graphs")>>))),
    Msg(Str("abc-1"), Meta(Str("Extreme"), Arr(<<Str("Graphs")>>))),
    Msg(Undefined, Meta(Str("Easy"), Arr(<<Str("Graphs")>>))) }

NoMessage == Msg(Undefined, Undefined)

----------------------------------------------------------------------------
(* The controller *)

\* Mutant: the stored document is returned as it is.
formatQuestionResponse_Raw(question) == question

formatQuestionResponse(question) ==
  Obj([id               |-> Get(question, "id"),
       title            |-> Get(question, "title"),
       difficulty       |-> Get(question, "difficulty"),
       topics           |-> Get(question, "topics"),
       problemStatement |-> Get(question, "problemStatement"),
       constraints      |-> Get(question, "constraints"),
       examples         |-> Get(question, "examples"),
       codeSnippets     |-> Get(question, "codeSnippets"),
       entryPoint       |-> Get(question, "entryPoint"),
       timeout          |-> Get(question, "timeout"),
       signature        |-> Get(question, "signature"),
       testCases        |-> Get(question, "testCases")])

\* Mutant: only meta.difficulty is tested.
MissingFields_DifficultyOnly(meta) == ~Truthy(Get(meta, "difficulty"))

\* The guard of line 562: meta.difficulty or meta.topics is missing (falsy).
MissingFields(meta) ==
  \/ ~Truthy(Get(meta, "difficulty"))
  \/ ~Truthy(Get(meta, "topics"))

\* Mutant: only !randomQuestion is tested.
IsEmptyResult_NullOnly(res) == ~Truthy(res)

\* The test of line 577: !randomQuestion || randomQuestion.length === 0.
IsEmptyResult(res) ==
  \/ ~Truthy(res)
  \/ res.t = "array" /\ Len(res.v) = 0

\* Mutant: a third status for the no-match case.
NoMatchReply_NotFound(correlationId) ==
  Obj([correlationId |-> correlationId,
       status        |-> Str("not_found"),
       data          |-> Null,
       message       |-> Str(NoQuestionsMessage)])

\* The reply of lines 584-589.
NoMatchReply(correlationId) ==
  Obj([correlationId |-> correlationId,
       status        |-> Str("error"),
       data          |-> Null,
       message       |-> Str(NoQuestionsMessage)])

\* The reply of lines 603-608.
SuccessReply(correlationId, question) ==
  Obj([correlationId |-> correlationId,
       status        |-> Str("success"),
       data          |-> formatQuestionResponse(question),
       message       |-> Str(FoundMessage)])

\* Mutant: the reply carries no correlationId.
InternalErrorReply_NoId(correlationId, e) ==
  Obj([correlationId |-> Undefined,
       status        |-> Str("error"),
       data          |-> Null,
       message       |-> Str(InternalErrorMessage)])

\* Mutant: the caught error is put into the reply.
InternalErrorReply_Leaky(correlationId, e) ==
  Obj([correlationId |-> correlationId,
       status        |-> Str("error"),
       data          |-> Null,
       message       |-> Str(e)])

\* The reply of lines 625-630, built inside catch (err).
InternalErrorReply(correlationId, e) ==
  Obj([correlationId |-> correlationId,
       status        |-> Str("error"),
       data          |-> Null,
       message       |-> Str(InternalErrorMessage)])

\* A call of producer.send({topic, messages: [{value: JSON.stringify(reply)}]})
\* that has not settled yet.
Send(reply) ==
  [topic |-> ReplyTopic, value |-> JSONStringify(reply), outcome |-> "pending"]

\* The pending call of a request settles.
Settle(attempts, outcome) ==
  [attempts EXCEPT ![Len(attempts)].outcome = outcome]

TypeOK ==
  /\ store \subseteq {Q1, Q2, Q3}
  /\ pc \in [Requests -> {"Idle", "Selecting", "Replying", "ReplyingError",
                          "Done", "Threw"}]
  /\ message \in [Requests -> Messages \cup {NoMessage}]
  /\ \A r \in Requests :
       /\ Len(queries[r]) <= 1
       /\ err[r] \in StoreErrors \cup {SendError, TypeError, NoError}
       /\ \A i \in 1..Len(sends[r]) :
            sends[r][i].outcome \in {"pending", "ok", "failed"}

\* No request was received and no response was sent.
NoRequest == [handler |-> "none"]

NoResponse == [status |-> 0, body |-> Undefined]

\* The HTTP read handlers have not been called.
HttpIdle ==
  /\ hpc = "Idle"
  /\ hreq = NoRequest
  /\ hqueries = <<>>
  /\ hrow = Undefined
  /\ hres = NoResponse

\* createQuestion and updateQuestion have not been called.
CrudIdle ==
  /\ cpc = [c \in Calls |-> "Idle"]
  /\ creq = [c \in Calls |-> NoRequest]
  /\ current = [c \in Calls |-> Undefined]
  /\ keysToDelete = [c \in Calls |-> {}]
  /\ writeArgs = [c \in Calls |-> Undefined]
  /\ updatedQuestion = [c \in Calls |-> Undefined]
  /\ cres = [c \in Calls |-> NoResponse]
  /\ destroyed = [c \in Calls |-> {}]

\* No matching request was delivered.
BusIdle ==
  /\ pc = [r \in Requests |-> "Idle"]
  /\ message = [r \in Requests |-> NoMessage]
  /\ queries = [r \in Requests |-> <<>>]
  /\ randomQuestion = [r \in Requests |-> Undefined]
  /\ err = [r \in Requests |-> NoError]
  /\ sends = [r \in Requests |-> <<>>]
  /\ log = [r \in Requests |-> <<>>]

\* The most uploads of one example's image that run at a time.
MaxUploads == 2

\* The examples of the form, by index.
ExampleIndexes == {0}

\* Lines 88-111: the form state of edit mode, from a stored question.
InitialForm ==
  [title            |-> "Two Sum",
   difficulty       |-> "Hard",
   topics           |-> <<"Arrays">>,
   problemStatement |-> "statement",
   constraints      |-> <<"n > 0">>,
   examples         |-> [i \in ExampleIndexes |->
                          [input |-> "1", output |-> "1", image |-> Undefined]],
   testCases        |-> <<[args |-> Arr(<<>>), expected |-> Str("1"), hidden |-> FALSE]>>,
   entryPoint       |-> "solve",
   timeout          |-> 1]

\* Lines 88-115: the modal as it opens.
FormIdle ==
  /\ form = InitialForm
  /\ saving = FALSE
  /\ errors = <<>>
  /\ uploading = [idx \in {} |-> FALSE]
  /\ uploads = [idx \in ExampleIndexes |-> 0]
  /\ fpc = "Idle"
  /\ api = <<>>
  /\ saved = Undefined

\* Lines 793-795: PContent as it mounts; nothing is queueing.
MatchIdle ==
  /\ selectedDifficulty = "Easy"
  /\ selectedTopics = <<"Strings">>
  /\ isQueueing = FALSE
  /\ started = Undefined

\* The browser shows the pages as they open.
PageIdle == FormIdle /\ MatchIdle

Init ==
  /\ store = InitialStore
  /\ BusIdle
  /\ HttpIdle
  /\ CrudIdle
  /\ PageIdle

\* Mutant: the correlationId is kept in a variable shared by all calls, so
\* the catch block replies with the id of the request delivered last.
CatchBlock_SharedId(r, e, attempts, logged) ==
  LET last == CHOOSE q \in Requests :
                /\ pc[q] # "Idle"
                /\ \A p \in Requests : pc[p] # "Idle" => p <= q
  IN  /\ err' = [err EXCEPT ![r] = e]
      /\ log' = [log EXCEPT ![r] = Append(logged, "error: Error processing request")]
      /\ sends' = [sends EXCEPT
                     ![r] = Append(attempts,
                                   Send(InternalErrorReply(message[last].correlationId, e)))]
      /\ pc' = [pc EXCEPT ![r] = "ReplyingError"]

\* Lines 614-633: catch (err) logs the error and sends the internal-error
\* reply; the handler then awaits that send.
CatchBlock(r, e, attempts, logged) ==
  /\ err' = [err EXCEPT ![r] = e]
  /\ log' = [log EXCEPT ![r] = Append(logged, "error: Error processing request")]
  /\ sends' = [sends EXCEPT
                 ![r] = Append(attempts,
                               Send(InternalErrorReply(message[r].correlationId, e)))]
  /\ pc' = [pc EXCEPT ![r] = "ReplyingError"]

\* The handler with one more early return, taken when skip holds, in front of
\* its guard (the body of the mutants of handleMatchingRequest).
HandleUnless(r, m, skip) ==
  /\ pc[r] = "Idle"
  /\ \A q \in 1..(r - 1) : pc[q] # "Idle"
  /\ message' = [message EXCEPT ![r] = m]
  /\ UNCHANGED <<store, randomQuestion, err, sends>>
  /\ UNCHANGED notBus
  /\ IF skip
       THEN /\ pc' = [pc EXCEPT ![r] = "Done"]
            /\ UNCHANGED <<queries, log>>
     ELSE IF ThrowsOnRead(m.meta)
       THEN /\ pc' = [pc EXCEPT ![r] = "Threw"]
            /\ UNCHANGED <<queries, log>>
     ELSE IF MissingFields(m.meta)
       THEN /\ log' = [log EXCEPT ![r] = Append(@, "warn: invalid matching request")]
            /\ pc' = [pc EXCEPT ![r] = "Done"]
            /\ UNCHANGED queries
     ELSE /\ log' = [log EXCEPT ![r] = Append(@, "log: Handling request")]
          /\ queries' = [queries EXCEPT
                           ![r] = Append(@, <<Get(m.meta, "difficulty"),
                                              Index0(Get(m.meta, "topics"))>>)]
          /\ pc' = [pc EXCEPT ![r] = "Selecting"]

\* Mutant: a request whose correlationId was seen before is dropped.
handleMatchingRequest_Dedup(r, m) ==
  HandleUnless(r, m, \E q \in 1..(r - 1) : message[q].correlationId = m.correlationId)

\* Mutant: a request without a correlationId is dropped.
handleMatchingRequest_RequiresId(r, m) ==
  HandleUnless(r, m, ~Truthy(m.correlationId))

\* Lines 559-575: the consumer calls the handler with a message; the handler
\* runs to its first await. Requests are numbered in the order of delivery.
handleMatchingRequest(r, m) ==
  /\ pc[r] = "Idle"
  /\ \A q \in 1..(r - 1) : pc[q] # "Idle"
  /\ message' = [message EXCEPT ![r] = m]
  /\ UNCHANGED <<store, randomQuestion, err, sends>>
  /\ UNCHANGED notBus
  /\ IF ThrowsOnRead(m.meta)
       THEN \* meta.difficulty of a missing meta: a TypeError outside the try
            /\ pc' = [pc EXCEPT ![r] = "Threw"]
            /\ UNCHANGED <<queries, log>>
     ELSE IF MissingFields(m.meta)
       THEN /\ log' = [log EXCEPT ![r] = Append(@, "warn: invalid matching request")]
            /\ pc' = [pc EXCEPT ![r] = "Done"]
            /\ UNCHANGED queries
     ELSE IF ThrowsOnRead(Get(m.meta, "topics"))
       THEN \* meta.topics[0] in the log line of 570-572
            /\ pc' = [pc EXCEPT ![r] = "Threw"]
            /\ UNCHANGED <<queries, log>>
     ELSE /\ log' = [log EXCEPT ![r] = Append(@, "log: Handling request")]
          /\ queries' = [queries EXCEPT
                           ![r] = Append(@, <<Get(m.meta, "difficulty"),
                                              Index0(Get(m.meta, "topics"))>>)]
          /\ pc' = [pc EXCEPT ![r] = "Selecting"]

\* Lines 575-611: the store query resolves; the handler runs to the await of
\* producer.send.
StoreReturns(r) ==
  /\ pc[r] = "Selecting"
  /\ \E res \in findRandomQuestion(store, queries[r][1][1], queries[r][1][2]) :
       /\ randomQuestion' = [randomQuestion EXCEPT ![r] = res]
       /\ IF IsEmptyResult(res)
            THEN /\ log' = [log EXCEPT ![r] = Append(@, "warn: No question found")]
                 /\ sends' = [sends EXCEPT
                                ![r] = Append(@, Send(NoMatchReply(message[r].correlationId)))]
                 /\ pc' = [pc EXCEPT ![r] = "Replying"]
                 /\ UNCHANGED err
          ELSE IF ThrowsOnRead(Index0(res))
            THEN \* question.id of a missing first row throws inside the try
                 CatchBlock(r, TypeError, sends[r], log[r])
          ELSE /\ sends' = [sends EXCEPT
                              ![r] = Append(@, Send(SuccessReply(message[r].correlationId,
                                                                 Index0(res))))]
               /\ pc' = [pc EXCEPT ![r] = "Replying"]
               /\ UNCHANGED <<err, log>>
  /\ UNCHANGED <<store, message, queries>>
  /\ UNCHANGED notBus

\* Mutant: the fault of the store query is logged and no reply is sent.
StoreThrows_NoReply(r) ==
  /\ pc[r] = "Selecting"
  /\ \E e \in StoreErrors :
       /\ err' = [err EXCEPT ![r] = e]
       /\ log' = [log EXCEPT ![r] = Append(@, "error: Error processing request")]
       /\ pc' = [pc EXCEPT ![r] = "Done"]
  /\ UNCHANGED <<store, message, queries, randomQuestion, sends>>
  /\ UNCHANGED notBus

\* Mutant: the store query is issued again whenever it throws.
StoreThrows_Retry(r) ==
  /\ pc[r] = "Selecting"
  /\ \E e \in StoreErrors \ {err[r]} : err' = [err EXCEPT ![r] = e]
  /\ UNCHANGED <<store, pc, message, queries, randomQuestion, sends, log>>
  /\ UNCHANGED notBus

\* Line 575 rejects: the store query throws into catch (err).
StoreThrows(r) ==
  /\ pc[r] = "Selecting"
  /\ \E e \in StoreErrors : CatchBlock(r, e, sends[r], log[r])
  /\ UNCHANGED <<store, message, queries, randomQuestion>>
  /\ UNCHANGED notBus

\* Mutant: a question that was sent is taken out of the collection.
PublishAck_Evict(r) ==
  /\ pc[r] \in {"Replying", "ReplyingError"}
  /\ sends' = [sends EXCEPT ![r] = Settle(@, "ok")]
  /\ log' = [log EXCEPT
               ![r] = IF pc[r] = "Replying" /\ ~IsEmptyResult(randomQuestion[r])
                        THEN Append(@, "log: Sent reply")
                        ELSE @]
  /\ store' = IF pc[r] = "Replying" /\ ~IsEmptyResult(randomQuestion[r])
                THEN store \ {Index0(randomQuestion[r])}
                ELSE store
  /\ pc' = [pc EXCEPT ![r] = "Done"]
  /\ UNCHANGED <<message, queries, randomQuestion, err>>
  /\ UNCHANGED notBus

\* The awaited producer.send resolves: line 594 returns, line 613 logs, or
\* the try of 620-633 ends.
PublishAck(r) ==
  /\ pc[r] \in {"Replying", "ReplyingError"}
  /\ sends' = [sends EXCEPT ![r] = Settle(@, "ok")]
  /\ log' = [log EXCEPT
               ![r] = IF pc[r] = "Replying" /\ ~IsEmptyResult(randomQuestion[r])
                        THEN Append(@, "log: Sent reply")
                        ELSE @]
  /\ pc' = [pc EXCEPT ![r] = "Done"]
  /\ UNCHANGED <<store, message, queries, randomQuestion, err>>
  /\ UNCHANGED notBus

\* Mutant: a rejected send makes the handler query the store again.
PublishFails_Requery(r) ==
  /\ pc[r] \in {"Replying", "ReplyingError"}
  /\ Len(queries[r]) < 2
  /\ sends' = [sends EXCEPT ![r] = Settle(@, "failed")]
  /\ queries' = [queries EXCEPT ![r] = Append(@, queries[r][1])]
  /\ pc' = [pc EXCEPT ![r] = "Selecting"]
  /\ UNCHANGED <<store, message, randomQuestion, err, log>>
  /\ UNCHANGED notBus

\* The awaited producer.send rejects: inside the try of 574-613 the fault is
\* caught by catch (err); inside the try of 620-633 by catch (sendErr).
PublishFails(r) ==
  /\ pc[r] \in {"Replying", "ReplyingError"}
  /\ IF pc[r] = "Replying"
       THEN CatchBlock(r, SendError, Settle(sends[r], "failed"), log[r])
     ELSE /\ sends' = [sends EXCEPT ![r] = Settle(@, "failed")]
          /\ log' = [log EXCEPT
                       ![r] = Append(@, "error: CRITICAL! Failed to send error reply")]
          /\ pc' = [pc EXCEPT ![r] = "Done"]
          /\ UNCHANGED err
  /\ UNCHANGED <<store, message, queries, randomQuestion>>
  /\ UNCHANGED notBus

Next ==
  \E r \in Requests :
    \/ \E m \in Messages : handleMatchingRequest(r, m)
    \/ StoreReturns(r)
    \/ StoreThrows(r)
    \/ PublishAck(r)
    \/ PublishFails(r)

Spec == Init /\ [][Next]_vars

\* One message for each way through the handler: no meta object, a missing
\* field, criteria that match documents and criteria that match none.
LiveMessages ==
  { Msg(Str("abc-1"), Undefined),
    Msg(Str("abc-2"), Obj([difficulty |-> Str("Easy")])),
    Msg(Str("abc-1"), Meta(Str("Easy"), Arr(<<Str("Graphs")>>))),
    Msg(Str("abc-2"), Meta(Str("Hard"), Arr(<<Str("Graphs")>>))) }

FairNext ==
  \E r \in Requests :
    \/ \E m \in LiveMessages : handleMatchingRequest(r, m)
    \/ StoreReturns(r)
    \/ StoreThrows(r)
    \/ PublishAck(r)
    \/ PublishFails(r)

\* The store query and every producer.send eventually resolve or reject.
FairSpec ==
  /\ Init
  /\ [][FairNext]_vars
  /\ \A r \in Requests :
       /\ WF_vars(StoreReturns(r) \/ StoreThrows(r))
       /\ WF_vars(PublishAck(r) \/ PublishFails(r))

----------------------------------------------------------------------------
(* What a run shows of a request *)

Delivered(r) == pc[r] # "Idle"

HasMeta(m) == m.meta.t = "object"

\* A field the request does not carry: undefined, null or the empty string.
Absent(x) == x \in {Undefined, Null, Str("")}

\* meta.difficulty and meta.topics are both present.
WellFormed(m) ==
  /\ HasMeta(m)
  /\ ~Absent(Get(m.meta, "difficulty"))
  /\ ~Absent(Get(m.meta, "topics"))

\* The difficulty or the first topic is not a recognized value.
InvalidCriteria(m) ==
  LET d == Get(m.meta, "difficulty")
      t == Index0(Get(m.meta, "topics"))
  IN  \/ ~(d.t = "string" /\ d.v \in DIFFICULTIES)
      \/ ~(t.t = "string" /\ t.v \in TOPICS)

\* The publish attempts of a request by their outcome.
Published(r) == {i \in DOMAIN sends[r] : sends[r][i].outcome = "ok"}

Failed(r) == {i \in DOMAIN sends[r] : sends[r][i].outcome = "failed"}

\* The fields of the reply a publish attempt carries, as its consumer reads them.
ReplyField(r, i, k) == Get(sends[r][i].value, k)

IsReply(r, i, status, text) ==
  /\ sends[r][i].topic = ReplyTopic
  /\ ReplyField(r, i, "correlationId") = message[r].correlationId
  /\ ReplyField(r, i, "status") = Str(status)
  /\ ReplyField(r, i, "message") = Str(text)

StoreThrew(r) == err[r] \in StoreErrors

StoreReturnedRecord(r) ==
  randomQuestion[r].t = "array" /\ Len(randomQuestion[r].v) > 0

StoreReturnedNothing(r) == randomQuestion[r] \in {Null, Arr(<<>>)}

LoggedCritical(r) ==
  \E i \in DOMAIN log[r] : log[r][i] = "error: CRITICAL! Failed to send error reply"

----------------------------------------------------------------------------
(* The HTTP read handlers *)

\* res.status(status).json(body): the status and the body as its reader
\* parses it.
Json(status, body) == [status |-> status, body |-> JSONStringify(body)]

\* The strings that are well-formed document identifiers.
ObjectIds == {"q1", "q2", "q3", "q4", "q9"}

isValidObjectId(id) == id.t = "string" /\ id.v \in ObjectIds

\* The document with the given _id, or null.
findQuestionById(docs, id) ==
  IF \E q \in docs : Get(q, "_id") = id
    THEN CHOOSE q \in docs : Get(q, "_id") = id
    ELSE Null

\* The query strings getRandomQuestion is called with.
RandomQueries ==
  { Obj([difficulty |-> Str("Easy"), topics |-> Str("Graphs")]),
    Obj([difficulty |-> Str("Hard"), topics |-> Str("Arrays")]),
    Obj([difficulty |-> Str("Hard"), topics |-> Str("Graphs")]),
    Obj([difficulty |-> Str("Extreme"), topics |-> Str("Graphs")]),
    Obj([difficulty |-> Str("Easy"), topics |-> Str("Sorting")]),
    Obj([difficulty |-> Str(""), topics |-> Str("Graphs")]),
    Obj([topics |-> Str("Graphs")]),
    Obj([difficulty |-> Str("Easy")]) }

\* The ids getQuestion is called with.
QuestionIds == {Str("q1"), Str("q3"), Str("q9"), Str("1")}

\* Mutant: the topic is not checked against TOPICS.
RejectedQuery_AnyTopic(difficulty, topics) ==
  IF ~Truthy(difficulty) THEN "Difficulty must be specified"
  ELSE IF ~Truthy(topics) THEN "Topics must be specified"
  ELSE IF ~(difficulty.t = "string" /\ difficulty.v \in DIFFICULTIES)
    THEN "Invalid difficulty level: " \o difficulty.v
  ELSE ""

\* Lines 484-495: the message of the 404 the guards answer with, "" when
\* the query passes them all.
RejectedQuery(difficulty, topics) ==
  IF ~Truthy(difficulty) THEN "Difficulty must be specified"
  ELSE IF ~Truthy(topics) THEN "Topics must be specified"
  ELSE IF ~(difficulty.t = "string" /\ difficulty.v \in DIFFICULTIES)
    THEN "Invalid difficulty level: " \o difficulty.v
  ELSE IF ~(topics.t = "string" /\ topics.v \in TOPICS)
    THEN "Invalid topic: " \o topics.v
  ELSE ""

\* Mutant: the stored document is sent as it is.
FoundRandom_Raw(difficulty, topics, question) ==
  Json(200, Obj([message |-> Str("Found a random question for the difficulty: "
                                 \o difficulty.v \o " and topic: " \o topics.v),
                 data    |-> question]))

\* The response of lines 503-506.
FoundRandom(difficulty, topics, question) ==
  Json(200, Obj([message |-> Str("Found a random question for the difficulty: "
                                 \o difficulty.v \o " and topic: " \o topics.v),
                 data    |-> formatQuestionResponse(question)]))

\* The response of lines 455-458.
FoundQuestion(question) ==
  Json(200, Obj([message |-> Str("Found question"),
                 data    |-> formatQuestionResponse(question)]))

\* Lines 480-497: getRandomQuestion runs to the await of the store query, or
\* answers 404 from one of its guards.
getRandomQuestion(query) ==
  LET difficulty == Get(query, "difficulty")
      topics == Get(query, "topics")
      no == RejectedQuery(difficulty, topics)
  IN  /\ hpc = "Idle"
      /\ hreq' = [handler |-> "getRandomQuestion", query |-> query]
      /\ IF no # ""
           THEN /\ hres' = Json(404, Obj([message |-> Str(no)]))
                /\ hpc' = "Done"
                /\ UNCHANGED hqueries
         ELSE /\ hqueries' = Append(hqueries, <<difficulty, topics>>)
              /\ hpc' = "Selecting"
              /\ UNCHANGED hres
      /\ UNCHANGED <<store, notHttp, hrow>>

\* Lines 497-506: the store query resolves and the handler responds.
RandomQueryReturns ==
  /\ hpc = "Selecting"
  /\ \E res \in findRandomQuestion(store, hqueries[1][1], hqueries[1][2]) :
       /\ hrow' = res
       /\ hres' = IF IsEmptyResult(res)
                    THEN Json(404, Obj([message |-> Str(NoQuestionsMessage)]))
                  ELSE IF ThrowsOnRead(Index0(res))
                    THEN Json(500, Obj([message |->
                           Str("Unknown error when getting a random question!")]))
                  ELSE FoundRandom(hqueries[1][1], hqueries[1][2], Index0(res))
  /\ hpc' = "Done"
  /\ UNCHANGED <<store, notHttp, hreq, hqueries>>

\* Lines 444-451: getQuestion runs to the await of the store read, or
\* answers 404 for an id that is not well-formed.
getQuestion(id) ==
  /\ hpc = "Idle"
  /\ hreq' = [handler |-> "getQuestion", params |-> Obj([id |-> id])]
  /\ IF ~isValidObjectId(id)
       THEN /\ hres' = Json(404, Obj([message |-> Str("ID " \o id.v \o " is invalid")]))
            /\ hpc' = "Done"
     ELSE /\ hpc' = "Finding"
          /\ UNCHANGED hres
  /\ UNCHANGED <<store, notHttp, hqueries, hrow>>

\* Lines 451-459: the store read resolves and the handler responds.
FindByIdReturns ==
  /\ hpc = "Finding"
  /\ LET id == Get(hreq.params, "id")
         question == findQuestionById(store, id)
     IN  /\ hrow' = question
         /\ hres' = IF ~Truthy(question)
                      THEN Json(404, Obj([message |->
                             Str("Question " \o id.v \o " not found")]))
                      ELSE FoundQuestion(question)
  /\ hpc' = "Done"
  /\ UNCHANGED <<store, notHttp, hreq, hqueries>>

\* Lines 460-463 and 507-510: the store rejects and catch (err) answers 500.
HttpStoreThrows ==
  /\ hpc \in {"Selecting", "Finding"}
  /\ hres' = Json(500, Obj([message |->
               Str(IF hpc = "Selecting"
                     THEN "Unknown error when getting a random question!"
                     ELSE "Unknown error when getting question!")]))
  /\ hpc' = "Done"
  /\ UNCHANGED <<store, notHttp, hreq, hqueries, hrow>>

\* The messages that carry the criteria of the query strings above.
ReadMessages ==
  { Msg(Str("abc-1"), Meta(Get(q, "difficulty"), Arr(<<Get(q, "topics")>>))) :
      q \in RandomQueries }

\* One HTTP read and one matching request over the same store.
ReadNext ==
  \/ \E query \in RandomQueries : getRandomQuestion(query)
  \/ RandomQueryReturns
  \/ \E id \in QuestionIds : getQuestion(id)
  \/ FindByIdReturns
  \/ HttpStoreThrows
  \/ \E m \in ReadMessages : handleMatchingRequest(1, m)
  \/ StoreReturns(1)
  \/ StoreThrows(1)
  \/ PublishAck(1)
  \/ PublishFails(1)

ReadSpec == Init /\ [][ReadNext]_vars

----------------------------------------------------------------------------
(* createQuestion and updateQuestion: validation and normalisation *)

\* The number NaN.
NaN == [t |-> "nan"]

\* The strings Number() reads as a number, with their values; it reads
\* every other string as NaN.
NumericStrings == ("" :> 0) @@ (" " :> 0) @@ ("0" :> 0) @@ ("5" :> 5)

\* Number(x).
ToNumber(x) ==
  IF x.t = "number" THEN x
  ELSE IF x.t = "null" THEN Num(0)
  ELSE IF x.t = "boolean" THEN Num(IF x.v THEN 1 ELSE 0)
  ELSE IF x.t = "string" /\ x.v \in DOMAIN NumericStrings
    THEN Num(NumericStrings[x.v])
  ELSE NaN

\* Mutant: only negative timeouts are replaced.
TimeoutSec_Negative(timeout) ==
  LET timeoutSec == ToNumber(timeout)
  IN  IF timeoutSec.t = "nan" \/ timeoutSec.v < 0 THEN Num(1) ELSE timeoutSec

\* Lines 290-293 and 408-411.
TimeoutSec(timeout) ==
  LET timeoutSec == ToNumber(timeout)
  IN  IF timeoutSec.t = "nan" \/ timeoutSec.v <= 0 THEN Num(1) ELSE timeoutSec

\* s.trim() === "".
IsBlank(s) == s \in {"", " "}

\* The keys of requiredFields, in the order of lines 231-240.
RequiredFields ==
  <<"title", "difficulty", "topics", "problemStatement", "constraints",
    "examples", "entryPoint", "testCases">>

\* The test of lines 244-248.
IsMissing(value) ==
  \/ value.t \in {"undefined", "null"}
  \/ value.t = "string" /\ IsBlank(value.v)

\* Lines 242-249: the required fields the body lacks.
missingFields(body) ==
  SelectSeq(RequiredFields, LAMBDA k : IsMissing(Get(body, k)))

\* keys.join(", ").
RECURSIVE Join(_)
Join(keys) ==
  IF keys = <<>> THEN ""
  ELSE IF Len(keys) = 1 THEN keys[1]
  ELSE keys[1] \o ", " \o Join(Tail(keys))

\* Lines 260-262: the fields an example lacks.
MissingOfExample(ex) ==
  (IF ~Truthy(Get(ex, "input")) \/ IsBlank(Get(ex, "input").v)
     THEN <<Str("input")>> ELSE <<>>)
  \o (IF ~Truthy(Get(ex, "output")) \/ IsBlank(Get(ex, "output").v)
        THEN <<Str("output")>> ELSE <<>>)

\* Lines 258-265: {index, missing} of every example that lacks a field.
invalidExamples(examples) ==
  LET list == IF Truthy(examples) THEN examples.v ELSE <<>>
      checked == [i \in 1..Len(list) |->
                   Obj([index   |-> Num(i - 1),
                        missing |-> Arr(MissingOfExample(list[i]))])]
  IN  SelectSeq(checked, LAMBDA x : Get(x, "missing") # Arr(<<>>))

\* A value parsed from a JSON body is JSON-serializable.
isJsonSerializable(v) == v.t # "nan"

\* Lines 184-203: the problems of one test case (the messages without the
\* backquotes around the field names).
ProblemsOfTestCase(tc, idx) ==
  IF ~Truthy(tc) \/ Get(tc, "args").t # "array"
    THEN <<Obj([index |-> Num(idx), message |-> Str("args must be an array.")])>>
  ELSE IF "expected" \notin DOMAIN tc.v
    THEN <<Obj([index |-> Num(idx), message |-> Str("expected is required.")])>>
  ELSE (IF ~isJsonSerializable(Get(tc, "args")) \/ ~isJsonSerializable(Get(tc, "expected"))
          THEN <<Obj([index   |-> Num(idx),
                      message |-> Str("args and expected must be JSON-serializable.")])>>
          ELSE <<>>)
       \o (IF "hidden" \in DOMAIN tc.v /\ Get(tc, "hidden").t # "boolean"
             THEN <<Obj([index |-> Num(idx), message |-> Str("hidden must be a boolean.")])>>
             ELSE <<>>)

RECURSIVE ProblemsFrom(_, _)
ProblemsFrom(list, i) ==
  IF i > Len(list) THEN <<>>
  ELSE ProblemsOfTestCase(list[i], i - 1) \o ProblemsFrom(list, i + 1)

\* Lines 178-204.
validateFunctionTestCases(testCases) ==
  LET given == IF testCases = Undefined THEN Arr(<<>>) ELSE testCases
  IN  IF given.t # "array" \/ Len(given.v) = 0
        THEN <<Obj([index   |-> Num(-1),
                    message |-> Str("At least one test case is required.")])>>
        ELSE ProblemsFrom(given.v, 1)

\* Lines 206-212.
sanitizeTestCasesForSave(testCases) ==
  LET list == IF testCases.t = "array" THEN testCases.v ELSE <<>>
  IN  Arr([i \in 1..Len(list) |->
            Obj([args     |-> Get(list[i], "args"),
                 expected |-> Get(list[i], "expected"),
                 hidden   |-> Bool(Truthy(Get(list[i], "hidden")))])])

\* The fields of an example the schema stores.
ExampleFields == {"input", "output", "explanation", "image"}

\* sanitizeExamplesForSave: every example with the fields the schema stores.
sanitizeExamplesForSave(examples) ==
  Arr([i \in 1..Len(examples.v) |->
        Obj([k \in DOMAIN examples.v[i].v \cap ExampleFields |-> examples.v[i].v[k]])])

\* collectImageKeys: the image keys the examples reference.
collectImageKeys(examples) ==
  IF examples.t # "array" THEN {}
  ELSE {Get(Get(examples.v[i], "image"), "key").v :
          i \in {j \in 1..Len(examples.v) :
                   Get(Get(examples.v[j], "image"), "key").t = "string"}}

----------------------------------------------------------------------------
(* createQuestion and updateQuestion: the repository and the requests *)

\* An example with an uploaded image, and one without.
ImageExample(key) ==
  Obj([input  |-> Str("1"),
       output |-> Str("1"),
       image  |-> Obj([key |-> Str(key), provider |-> Str("cloudinary")])])

PlainExample == Obj([input |-> Str("1"), output |-> Str("1")])

\* A stored document whose example references the image k1.
Q4 ==
  Obj([QuestionDoc("q4", "Graph Paint", "Medium", <<Str("Graphs")>>).v
         EXCEPT !.examples = Arr(<<ImageExample("k1")>>)])

\* The collection createQuestion and updateQuestion start from.
CrudStore == {Q3, Q4}

\* The arguments of _createQuestion and _updateQuestionById after the id.
WriteArgs(body, cleanExamples, timeoutSec, cleanTestCases) ==
  Obj([title            |-> Get(body, "title"),
       difficulty       |-> Get(body, "difficulty"),
       topics           |-> Get(body, "topics"),
       problemStatement |-> Get(body, "problemStatement"),
       constraints      |-> Get(body, "constraints"),
       examples         |-> cleanExamples,
       codeSnippets     |-> Get(body, "codeSnippets"),
       entryPoint       |-> Get(body, "entryPoint"),
       timeout          |-> timeoutSec,
       signature        |-> Get(body, "signature"),
       testCases        |-> cleanTestCases])

\* The fields of the arguments that are not undefined.
Given(args) == {k \in DOMAIN args.v : args.v[k] # Undefined}

\* The identifiers the store gives to the documents the calls create.
NewIds == <<"n1", "n2", "n3", "n4">>

\* findQuestionByTitle: a document with that title, any of them; null when
\* there is none.
findQuestionByTitle(docs, title) ==
  IF \E q \in docs : Get(q, "title") = title
    THEN {q \in docs : Get(q, "title") = title}
    ELSE {Null}

\* repository.createQuestion: the document the store inserts.
NewDoc(id, args) ==
  Obj([k \in {"_id", "__v", "id"} \cup Given(args) |->
        IF k \in {"_id", "id"} THEN Str(id)
        ELSE IF k = "__v" THEN Num(0)
        ELSE args.v[k]])

\* repository.updateQuestionById: the document with the given fields set.
UpdatedDoc(doc, args) ==
  Obj([k \in DOMAIN doc.v \cup Given(args) |->
        IF k \in Given(args) THEN args.v[k] ELSE doc.v[k]])

GoodTestCases == Arr(<<Obj([args |-> Arr(<<>>), expected |-> Num(1)])>>)

\* req.body of createQuestion and updateQuestion.
Body(title, examples, timeout, testCases) ==
  Obj([title            |-> title,
       difficulty       |-> Str("Easy"),
       topics           |-> Arr(<<Str("Graphs")>>),
       problemStatement |-> Str("statement"),
       constraints      |-> Arr(<<>>),
       examples         |-> Arr(examples),
       entryPoint       |-> Str("solve"),
       timeout          |-> timeout,
       testCases        |-> testCases])

Create(body) == [handler |-> "createQuestion", body |-> body]

Update(id, body) ==
  [handler |-> "updateQuestion", params |-> Obj([id |-> Str(id)]), body |-> body]

\* The requests createQuestion is called with.
CreateRequests ==
  { Create(Body(Str("New"), <<ImageExample("k2")>>, Undefined, GoodTestCases)),
    Create(Body(Str("New"), <<PlainExample>>, Num(0), GoodTestCases)),
    Create(Body(Str("Other"), <<PlainExample>>, Str("5"), GoodTestCases)),
    Create(Body(Str("Two Sum"), <<PlainExample>>, Num(5), GoodTestCases)),
    Create(Body(Str(" "), <<PlainExample>>, Num(5), GoodTestCases)),
    Create(Body(Str("New"), <<Obj([input |-> Str("1"), output |-> Str(" ")])>>,
                Num(5), GoodTestCases)),
    Create(Body(Str("New"), <<PlainExample>>, Num(5),
                Arr(<<Obj([args |-> Str("x"), expected |-> Num(1)])>>))) }

\* The requests updateQuestion is called with.
UpdateRequests ==
  { Update("q4", Body(Str("Graph Paint"), <<ImageExample("k2")>>, Num(7), GoodTestCases)),
    Update("q4", Body(Str("Graph Paint"), <<ImageExample("k1")>>, Str("abc"), GoodTestCases)),
    Update("q4", Body(Str("Two Sum"), <<PlainExample>>, Num(5), GoodTestCases)),
    Update("q3", Body(Str("New"), <<PlainExample>>, Num(-3), GoodTestCases)),
    Update("1", Body(Str("Graph Paint"), <<PlainExample>>, Num(5), GoodTestCases)),
    Update("q9", Body(Str("Graph Paint"), <<PlainExample>>, Num(5), GoodTestCases)),
    Update("q4", Body(Str("Graph Paint"), <<PlainExample>>, Num(5), Undefined)) }

----------------------------------------------------------------------------
(* createQuestion and updateQuestion: the handlers *)

\* Lines 242-279 and 359-394: the 400 the validation of the body answers
\* with, NoResponse when the body passes.
Validation(body) ==
  LET missing == missingFields(body)
      examples == invalidExamples(Get(body, "examples"))
      tcProblems == validateFunctionTestCases(Get(body, "testCases"))
  IN  IF missing # <<>>
        THEN Json(400, Obj([message |-> Str("Missing required fields: " \o Join(missing))]))
      ELSE IF examples # <<>>
        THEN Json(400, Obj([message |-> Str("Invalid examples"), details |-> Arr(examples)]))
      ELSE IF tcProblems # <<>>
        THEN Json(400, Obj([message |-> Str("Invalid test cases"),
                            details |-> Arr(tcProblems)]))
      ELSE NoResponse

\* The arguments lines 287-307 and 401-425 pass to the repository.
ArgsOf(body) ==
  WriteArgs(body,
            sanitizeExamplesForSave(Get(body, "examples")),
            TimeoutSec(Get(body, "timeout")),
            sanitizeTestCasesForSave(Get(body, "testCases")))

\* The image keys a request names are keys of images that exist when the
\* request is sent: the form takes them from the stored question or from an
\* upload it has just made.
KeysExist(body) ==
  \A c \in Calls :
    collectImageKeys(sanitizeExamplesForSave(Get(body, "examples"))) \cap destroyed[c] = {}

\* The call responds and ends.
Respond(c, response) ==
  /\ cres' = [cres EXCEPT ![c] = response]
  /\ cpc' = [cpc EXCEPT ![c] = "Done"]

\* Lines 214-282: createQuestion runs to the await of _findQuestionByTitle,
\* or answers 400. Calls are numbered in the order they arrive.
createQuestion(c, req) ==
  /\ cpc[c] = "Idle"
  /\ \A d \in 1..(c - 1) : cpc[d] # "Idle"
  /\ KeysExist(req.body)
  /\ creq' = [creq EXCEPT ![c] = req]
  /\ IF Validation(req.body) # NoResponse
       THEN Respond(c, Validation(req.body))
       ELSE /\ cpc' = [cpc EXCEPT ![c] = "FindingTitle"]
            /\ UNCHANGED cres
  /\ UNCHANGED <<store, current, keysToDelete, writeArgs, updatedQuestion, destroyed>>
  /\ UNCHANGED notCrud

\* Mutant: the document is inserted before the title is looked up.
CreateTitleFound_WriteFirst(c) ==
  /\ cpc[c] = "FindingTitle"
  /\ creq[c].handler = "createQuestion"
  /\ \E existingQuestion \in findQuestionByTitle(store, Get(creq[c].body, "title")) :
       /\ writeArgs' = [writeArgs EXCEPT ![c] = ArgsOf(creq[c].body)]
       /\ IF Truthy(existingQuestion)
            THEN /\ store' = store \cup {NewDoc(NewIds[c], ArgsOf(creq[c].body))}
                 /\ Respond(c, Json(409, Obj([message |-> Str("Title already exists")])))
            ELSE /\ cpc' = [cpc EXCEPT ![c] = "Creating"]
                 /\ UNCHANGED <<store, cres>>
  /\ UNCHANGED <<creq, current, keysToDelete, updatedQuestion, destroyed>>
  /\ UNCHANGED notCrud

\* Lines 282-296: _findQuestionByTitle resolves; createQuestion answers 409
\* or runs to the await of _createQuestion.
CreateTitleFound(c) ==
  /\ cpc[c] = "FindingTitle"
  /\ creq[c].handler = "createQuestion"
  /\ \E existingQuestion \in findQuestionByTitle(store, Get(creq[c].body, "title")) :
       IF Truthy(existingQuestion)
         THEN /\ Respond(c, Json(409, Obj([message |-> Str("Title already exists")])))
              /\ UNCHANGED writeArgs
         ELSE /\ writeArgs' = [writeArgs EXCEPT ![c] = ArgsOf(creq[c].body)]
              /\ cpc' = [cpc EXCEPT ![c] = "Creating"]
              /\ UNCHANGED cres
  /\ UNCHANGED <<store, creq, current, keysToDelete, updatedQuestion, destroyed>>
  /\ UNCHANGED notCrud

\* Lines 296-313: _createQuestion resolves with the inserted document.
Created(c) ==
  /\ cpc[c] = "Creating"
  /\ LET createdQuestion == NewDoc(NewIds[c], writeArgs[c])
     IN  /\ store' = store \cup {createdQuestion}
         /\ Respond(c, Json(201,
              Obj([message |-> Str("Created new question "
                                   \o Get(creq[c].body, "title").v \o " successfully"),
                   data    |-> formatQuestionResponse(createdQuestion)])))
  /\ UNCHANGED <<creq, current, keysToDelete, writeArgs, updatedQuestion, destroyed>>
  /\ UNCHANGED notCrud

\* Lines 322-343: updateQuestion runs to the await of _findQuestionById, or
\* answers 400 for an id that is not well-formed.
updateQuestion(c, req) ==
  /\ cpc[c] = "Idle"
  /\ \A d \in 1..(c - 1) : cpc[d] # "Idle"
  /\ KeysExist(req.body)
  /\ creq' = [creq EXCEPT ![c] = req]
  /\ IF ~isValidObjectId(Get(req.params, "id"))
       THEN Respond(c, Json(400, Obj([message |-> Str("Invalid question ID")])))
       ELSE /\ cpc' = [cpc EXCEPT ![c] = "FindingCurrent"]
            /\ UNCHANGED cres
  /\ UNCHANGED <<store, current, keysToDelete, writeArgs, updatedQuestion, destroyed>>
  /\ UNCHANGED notCrud

\* Lines 343-396: _findQuestionById resolves; updateQuestion answers 404 or
\* 400, or runs to the await of _findQuestionByTitle.
CurrentFound(c) ==
  /\ cpc[c] = "FindingCurrent"
  /\ LET found == findQuestionById(store, Get(creq[c].params, "id"))
     IN  /\ current' = [current EXCEPT ![c] = found]
         /\ IF ~Truthy(found)
              THEN Respond(c, Json(404, Obj([message |-> Str("Question not found")])))
            ELSE IF Validation(creq[c].body) # NoResponse
              THEN Respond(c, Validation(creq[c].body))
            ELSE /\ cpc' = [cpc EXCEPT ![c] = "FindingTitle"]
                 /\ UNCHANGED cres
  /\ UNCHANGED <<store, creq, keysToDelete, writeArgs, updatedQuestion, destroyed>>
  /\ UNCHANGED notCrud

\* Lines 396-413: _findQuestionByTitle resolves; updateQuestion answers 409
\* or computes the keys to delete and runs to the await of
\* _updateQuestionById.
UpdateTitleFound(c) ==
  /\ cpc[c] = "FindingTitle"
  /\ creq[c].handler = "updateQuestion"
  /\ \E existingQuestion \in findQuestionByTitle(store, Get(creq[c].body, "title")) :
       IF /\ Truthy(existingQuestion)
          /\ Get(existingQuestion, "_id").v # Get(creq[c].params, "id").v
         THEN /\ Respond(c, Json(409, Obj([message |-> Str("Title already exists")])))
              /\ UNCHANGED <<keysToDelete, writeArgs>>
         ELSE /\ keysToDelete' =
                   [keysToDelete EXCEPT
                      ![c] = collectImageKeys(Get(current[c], "examples"))
                               \ collectImageKeys(ArgsOf(creq[c].body).v.examples)]
              /\ writeArgs' = [writeArgs EXCEPT ![c] = ArgsOf(creq[c].body)]
              /\ cpc' = [cpc EXCEPT ![c] = "Updating"]
              /\ UNCHANGED cres
  /\ UNCHANGED <<store, creq, current, updatedQuestion, destroyed>>
  /\ UNCHANGED notCrud

\* Lines 413-432: _updateQuestionById resolves; updateQuestion answers 404
\* when the document is gone, or runs to the await of destroyCloudinaryKeys.
Updated(c) ==
  /\ cpc[c] = "Updating"
  /\ LET stored == findQuestionById(store, Get(creq[c].params, "id"))
     IN  IF ~Truthy(stored)
           THEN /\ Respond(c, Json(404, Obj([message |-> Str("Question not found")])))
                /\ UNCHANGED <<store, updatedQuestion>>
           ELSE /\ store' = (store \ {stored}) \cup {UpdatedDoc(stored, writeArgs[c])}
                /\ updatedQuestion' =
                     [updatedQuestion EXCEPT ![c] = UpdatedDoc(stored, writeArgs[c])]
                /\ cpc' = [cpc EXCEPT ![c] = "Destroying"]
                /\ UNCHANGED cres
  /\ UNCHANGED <<creq, current, keysToDelete, writeArgs, destroyed>>
  /\ UNCHANGED notCrud

\* Lines 432-437: destroyCloudinaryKeys resolves and updateQuestion answers
\* 200.
KeysDestroyed(c) ==
  /\ cpc[c] = "Destroying"
  /\ destroyed' = [destroyed EXCEPT ![c] = keysToDelete[c]]
  /\ Respond(c, Json(200,
       Obj([message |-> Str("Updated question "
                            \o Get(creq[c].body, "title").v \o " successfully"),
            data    |-> formatQuestionResponse(updatedQuestion[c])])))
  /\ UNCHANGED <<store, creq, current, keysToDelete, writeArgs, updatedQuestion>>
  /\ UNCHANGED notCrud

\* Lines 314-319 and 438-441: an awaited call rejects and catch (err)
\* answers 500.
CrudThrows(c) ==
  /\ cpc[c] \in {"FindingTitle", "Creating", "FindingCurrent", "Updating", "Destroying"}
  /\ Respond(c, Json(500, Obj([message |->
       Str(IF creq[c].handler = "createQuestion"
             THEN "Unknown error when creating new question!"
             ELSE "Unknown error when updating question!")])))
  /\ UNCHANGED <<store, creq, current, keysToDelete, writeArgs, updatedQuestion, destroyed>>
  /\ UNCHANGED notCrud

CrudInit ==
  /\ store = CrudStore
  /\ BusIdle
  /\ HttpIdle
  /\ CrudIdle
  /\ PageIdle

CrudNext ==
  \E c \in Calls :
    \/ \E req \in CreateRequests : createQuestion(c, req)
    \/ CreateTitleFound(c)
    \/ Created(c)
    \/ \E req \in UpdateRequests : updateQuestion(c, req)
    \/ CurrentFound(c)
    \/ UpdateTitleFound(c)
    \/ Updated(c)
    \/ KeysDestroyed(c)
    \/ CrudThrows(c)

CrudSpec == CrudInit /\ [][CrudNext]_vars

----------------------------------------------------------------------------
(* QuestionFormModal: validate, the test case parsers and the handlers *)

\* The most test cases the form holds.
MaxTestCases == 1

\* Line 60.
emptyUITest == [args |-> Str("[]"), expected |-> Str(""), hidden |-> FALSE]

\* Line 116.
anyUploading == \E idx \in DOMAIN uploading : uploading[idx]

\* Lines 120-139: the errors validate() finds in the form.
validate(f) ==
  LET Check(failed, text) == IF failed THEN <<text>> ELSE <<>>
  IN  Check(IsBlank(f.title), "Title is required.")
      \o Check(IsBlank(f.problemStatement), "Problem statement is required.")
      \o Check(f.difficulty = "", "Difficulty is required.")
      \o Check(f.topics = <<>>, "Select at least one topic.")
      \o Check(IsBlank(f.entryPoint), "Function entry point is required.")
      \o Check(f.timeout <= 0, "Timeout (seconds) must be a positive number.")
      \o Check(SelectSeq(f.constraints, LAMBDA c : ~IsBlank(c)) = <<>>,
               "Provide at least one constraint.")
      \o Check(\A i \in DOMAIN f.examples :
                 IsBlank(f.examples[i].input) \/ IsBlank(f.examples[i].output),
               "Provide at least one example with input and output.")
      \o Check(f.testCases = <<>>, "Provide at least one test case.")

\* The texts JSON.parse reads, with their values; it throws on every other
\* text.
JsonTexts ==
  ("[]" :> Arr(<<>>)) @@ ("{}" :> Obj([x \in {} |-> Undefined])) @@ ("1" :> Num(1))

\* A thrown Error.
Thrown(text) == [t |-> "error", v |-> text]

\* Lines 172-178.
parseJson(label, raw) ==
  IF raw.t \in {"array", "object"} THEN raw
  ELSE IF IsBlank(raw.v) THEN Thrown(label \o " is required and must be valid JSON")
  ELSE IF raw.v \in DOMAIN JsonTexts THEN JsonTexts[raw.v]
  ELSE Thrown(label \o " must be valid JSON")

\* Lines 180-189.
parseJsonLoose(label, raw) ==
  IF raw.t # "string" THEN raw
  ELSE IF IsBlank(raw.v) THEN Thrown(label \o " is required")
  ELSE IF raw.v \in DOMAIN JsonTexts THEN JsonTexts[raw.v]
  ELSE raw

\* idx + 1 in a label.
Ordinal == <<"1", "2">>

\* Lines 225-237: one test case of the payload, or the error thrown for it.
ParsedTestCase(tc, idx) ==
  LET parsedArgs == parseJson("Test case #" \o Ordinal[idx] \o " Args", tc.args)
      parsedExpected ==
        parseJsonLoose("Test case #" \o Ordinal[idx] \o " Expected", tc.expected)
  IN  IF parsedArgs.t = "error" THEN parsedArgs
      ELSE IF parsedArgs.t # "array"
        THEN Thrown("Test case #" \o Ordinal[idx] \o " Args must be a JSON array")
      ELSE IF parsedExpected.t = "error" THEN parsedExpected
      ELSE Obj([args |-> parsedArgs, expected |-> parsedExpected, hidden |-> Bool(tc.hidden)])

\* Lines 223-243: the test cases of the payload, or the first error thrown.
payloadTestCases(testCases) ==
  LET parsed == [idx \in DOMAIN testCases |-> ParsedTestCase(testCases[idx], idx)]
      failed == {idx \in DOMAIN parsed : parsed[idx].t = "error"}
  IN  IF failed = {} THEN Arr(parsed)
      ELSE parsed[CHOOSE idx \in failed : \A other \in failed : idx <= other]

\* Lines 245-259: the payload of the save request.
Payload(f) ==
  [title            |-> f.title,
   difficulty       |-> f.difficulty,
   topics           |-> f.topics,
   problemStatement |-> f.problemStatement,
   constraints      |-> SelectSeq(f.constraints, LAMBDA c : ~IsBlank(c)),
   examples         |-> f.examples,
   testCases        |-> payloadTestCases(f.testCases),
   entryPoint       |-> f.entryPoint,
   timeout          |-> IF f.timeout = 0 THEN 1 ELSE f.timeout]

\* A handler of an input sets a field and leaves everything but the form
\* alone; the handlers run while no other handler is running (fpc is Idle).
Edit(newForm) ==
  /\ form' = newForm
  /\ UNCHANGED <<saving, errors, uploading, uploads, fpc, api, saved>>
  /\ UNCHANGED notForm

\* Line 315.
setTitle(value) ==
  /\ fpc = "Idle"
  /\ Edit([form EXCEPT !.title = value])

\* Lines 118 and 346.
toggleFormTopic(t) ==
  /\ fpc = "Idle"
  /\ Edit([form EXCEPT !.topics =
             IF \E i \in DOMAIN form.topics : form.topics[i] = t
               THEN SelectSeq(form.topics, LAMBDA x : x # t)
               ELSE Append(form.topics, t)])

\* Line 594.
setTimeout(value) ==
  /\ fpc = "Idle"
  /\ Edit([form EXCEPT !.timeout = value])

\* Line 656.
addTestCase ==
  /\ fpc = "Idle"
  /\ Len(form.testCases) < MaxTestCases
  /\ Edit([form EXCEPT !.testCases = Append(form.testCases, emptyUITest)])

\* Line 670.
removeTestCase(idx) ==
  /\ fpc = "Idle"
  /\ idx \in DOMAIN form.testCases
  /\ Edit([form EXCEPT !.testCases =
             [i \in 1..(Len(form.testCases) - 1) |->
                IF i < idx THEN form.testCases[i] ELSE form.testCases[i + 1]]])

\* Line 684.
setTestCaseArgs(idx, value) ==
  /\ fpc = "Idle"
  /\ idx \in DOMAIN form.testCases
  /\ Edit([form EXCEPT !.testCases[idx].args = Str(value)])

\* Line 694.
setTestCaseExpected(idx, value) ==
  /\ fpc = "Idle"
  /\ idx \in DOMAIN form.testCases
  /\ Edit([form EXCEPT !.testCases[idx].expected = Str(value)])

\* setUploading((u) => ({ ...u, [idx]: value })).
SetUploading(idx, value) ==
  [i \in DOMAIN uploading \cup {idx} |-> IF i = idx THEN value ELSE uploading[i]]

\* Lines 141-151, from the file inputs of lines 474-479 and 499-504:
\* uploadExampleImage marks the example as uploading and runs to the await
\* of fetch. The inputs stay enabled while an upload runs.
uploadExampleImage(idx) ==
  /\ fpc = "Idle"
  /\ uploads[idx] < MaxUploads
  /\ uploading' = SetUploading(idx, TRUE)
  /\ uploads' = [uploads EXCEPT ![idx] = @ + 1]
  /\ UNCHANGED <<form, saving, errors, fpc, api, saved>>
  /\ UNCHANGED notForm

\* Lines 152-162 and 167-169: an upload succeeds; the example gets the image
\* and the finally block clears the example's flag.
UploadResolves(idx) ==
  /\ fpc = "Idle"
  /\ uploads[idx] > 0
  /\ form' = [form EXCEPT !.examples[idx].image = Str("meta")]
  /\ uploading' = SetUploading(idx, FALSE)
  /\ uploads' = [uploads EXCEPT ![idx] = @ - 1]
  /\ UNCHANGED <<saving, errors, fpc, api, saved>>
  /\ UNCHANGED notForm

\* Lines 157-169: an upload fails; catch sets the error and the finally
\* block clears the example's flag.
UploadRejects(idx) ==
  /\ fpc = "Idle"
  /\ uploads[idx] > 0
  /\ errors' = <<"Image upload failed.">>
  /\ uploading' = SetUploading(idx, FALSE)
  /\ uploads' = [uploads EXCEPT ![idx] = @ - 1]
  /\ UNCHANGED <<form, saving, fpc, api, saved>>
  /\ UNCHANGED notForm

\* Lines 190-222, from the Save button of lines 731-733, which is disabled
\* while saving or anyUploading: onSubmit returns early or sets saving and
\* goes on to build the payload.
onSubmit ==
  /\ fpc = "Idle"
  /\ ~(saving \/ anyUploading)
  /\ IF saving
       THEN UNCHANGED <<saving, errors, fpc>>
     ELSE IF anyUploading
       THEN /\ errors' = <<"Please wait for image upload(s) to finish before saving.">>
            /\ UNCHANGED <<saving, fpc>>
     ELSE IF validate(form) # <<>>
       THEN /\ errors' = validate(form)
            /\ UNCHANGED <<saving, fpc>>
     ELSE /\ saving' = TRUE
          /\ errors' = <<>>
          /\ fpc' = "Submitting"
  /\ UNCHANGED <<form, uploading, uploads, api, saved>>
  /\ UNCHANGED notForm

\* Lines 223-264: onSubmit parses the test cases; on an error it shows the
\* message and clears saving, otherwise it sends the save request and runs
\* to the await of api.
SubmitParsed ==
  /\ fpc = "Submitting"
  /\ fpc' = "Idle"
  /\ IF payloadTestCases(form.testCases).t = "error"
       THEN /\ errors' = <<payloadTestCases(form.testCases).v>>
            /\ saving' = FALSE
            /\ UNCHANGED api
       ELSE /\ api' = Append(api, Payload(form))
            /\ UNCHANGED <<saving, errors>>
  /\ UNCHANGED <<form, uploading, uploads, saved>>
  /\ UNCHANGED notForm

\* Lines 261-267 and 272-274: the save request succeeds; onSaved gets the
\* saved question and the finally block clears saving.
ApiResolves ==
  /\ fpc = "Idle"
  /\ api # <<>>
  /\ saved' = Head(api)
  /\ api' = Tail(api)
  /\ saving' = FALSE
  /\ UNCHANGED <<form, errors, uploading, uploads, fpc>>
  /\ UNCHANGED notForm

\* Lines 268-274: the save request fails; catch shows the message and the
\* finally block clears saving.
ApiRejects ==
  /\ fpc = "Idle"
  /\ api # <<>>
  /\ api' = Tail(api)
  /\ errors' = <<"Failed to save question.">>
  /\ saving' = FALSE
  /\ UNCHANGED <<form, uploading, uploads, fpc, saved>>
  /\ UNCHANGED notForm

FormNext ==
  \/ \E value \in {"", "Two Sum"} : setTitle(value)
  \/ \E t \in {"Arrays"} : toggleFormTopic(t)
  \/ \E value \in {0, 1} : setTimeout(value)
  \/ addTestCase
  \/ \E idx \in 1..MaxTestCases : removeTestCase(idx)
  \/ \E idx \in 1..MaxTestCases : \E value \in {"[]", "[1", "{}"} :
       setTestCaseArgs(idx, value)
  \/ \E idx \in 1..MaxTestCases : \E value \in {"", "1"} :
       setTestCaseExpected(idx, value)
  \/ \E idx \in ExampleIndexes : uploadExampleImage(idx)
  \/ \E idx \in ExampleIndexes : UploadResolves(idx)
  \/ \E idx \in ExampleIndexes : UploadRejects(idx)
  \/ onSubmit
  \/ SubmitParsed
  \/ ApiResolves
  \/ ApiRejects

FormSpec == Init /\ [][FormNext]_vars

\* onSubmit runs on once it has set saving, and a save request that was sent
\* is answered or fails.
FairFormSpec ==
  /\ FormSpec
  /\ WF_vars(SubmitParsed)
  /\ WF_vars(ApiResolves \/ ApiRejects)

----------------------------------------------------------------------------
(* PContent: the match criteria and the Find Match button *)

\* The topics of ALL_TOPICS (lines 762-771) the user clicks.
MatchTopics == {"Strings", "Arrays", "Graphs"}

\* Mutant: Find Match stays enabled while queueing.
isFindMatchDisabled_TopicsOnly == selectedTopics = <<>>

\* Line 797.
isFindMatchDisabled == isQueueing \/ selectedTopics = <<>>

\* Lines 799-804, from the topic buttons of lines 912-914, which are
\* disabled while queueing.
toggleTopic(t) ==
  /\ ~isQueueing
  /\ IF isQueueing
       THEN UNCHANGED selectedTopics
       ELSE selectedTopics' =
              IF \E i \in DOMAIN selectedTopics : selectedTopics[i] = t
                THEN SelectSeq(selectedTopics, LAMBDA x : x # t)
                ELSE Append(selectedTopics, t)
  /\ UNCHANGED <<selectedDifficulty, isQueueing, started>>
  /\ UNCHANGED notMatch

\* Lines 861-866: a difficulty button, disabled while queueing.
setDifficulty(d) ==
  /\ ~isQueueing
  /\ selectedDifficulty' = d
  /\ UNCHANGED <<selectedTopics, isQueueing, started>>
  /\ UNCHANGED notMatch

\* Lines 895-900: the Clear button, disabled without topics and while
\* queueing.
clearTopics ==
  /\ ~(selectedTopics = <<>> \/ isQueueing)
  /\ selectedTopics' = <<>>
  /\ UNCHANGED <<selectedDifficulty, isQueueing, started>>
  /\ UNCHANGED notMatch

\* Lines 943-946: the Find Match button calls handleStartMatch with the
\* criteria; started keeps the arguments and whether PContent was queueing.
findMatch ==
  /\ ~isFindMatchDisabled
  /\ started' = [difficulty |-> selectedDifficulty,
                 topics     |-> selectedTopics,
                 queueing   |-> isQueueing]
  /\ UNCHANGED <<selectedDifficulty, selectedTopics, isQueueing>>
  /\ UNCHANGED notMatch

\* Lines 755-760 and 788-792: the parent renders PContent with another
\* isQueueing, after a start, a cancel (lines 979-981) or a match.
ParentRenders(queueing) ==
  /\ queueing # isQueueing
  /\ isQueueing' = queueing
  /\ UNCHANGED <<selectedDifficulty, selectedTopics, started>>
  /\ UNCHANGED notMatch

MatchNext ==
  \/ \E t \in MatchTopics : toggleTopic(t)
  \/ \E d \in DIFFICULTIES : setDifficulty(d)
  \/ clearTopics
  \/ findMatch
  \/ \E queueing \in BOOLEAN : ParentRenders(queueing)

MatchSpec == Init /\ [][MatchNext]_vars

----------------------------------------------------------------------------
(* Claims *)

\* C1: a request whose meta.difficulty and meta.topics are present, in a run
\* where no publish of it fails, has exactly one reply published on
\* question-replies once the handler is done (and never more than one before),
\* whether the store returned a record, returned nothing or threw.
C1_ExactlyOneReply ==
  \A r \in Requests :
    (Delivered(r) /\ WellFormed(message[r]) /\ Failed(r) = {}) =>
      /\ Cardinality(Published(r)) <= 1
      /\ \A i \in Published(r) : sends[r][i].topic = ReplyTopic
      /\ pc[r] = "Done" =>
           /\ Cardinality(Published(r)) = 1
           /\ StoreThrew(r) \/ StoreReturnedRecord(r) \/ StoreReturnedNothing(r)

C1_Witness ==
  \E r1, r2 \in Requests :
    /\ pc[r1] = "Done" /\ Failed(r1) = {} /\ StoreThrew(r1)
    /\ Cardinality(Published(r1)) = 1
    /\ pc[r2] = "Done" /\ Failed(r2) = {} /\ StoreReturnedRecord(r2)
    /\ Cardinality(Published(r2)) = 1

\* C2: every reply the handler sends, on the success path, the no-match path
\* and the internal-error path, carries the correlationId of its request.
C2_CorrelationFidelity ==
  \A r \in Requests :
    \A i \in DOMAIN sends[r] :
      ReplyField(r, i, "correlationId") = message[r].correlationId

C2_Witness ==
  \E r1, r2 \in Requests :
    /\ message[r1].correlationId = Str("abc-1")
    /\ \E i \in Published(r1) : ReplyField(r1, i, "status") = Str("success")
    /\ message[r2].correlationId = Str("abc-2")
    /\ \E i \in Published(r2) :
         ReplyField(r2, i, "message") = Str(InternalErrorMessage)

\* C3 (as claimed): a request whose difficulty or first topic is not a
\* recognized value never causes a store query, and gets a status=error reply.
C3_InvalidCriteriaNeverQueried ==
  \A r \in Requests :
    (Delivered(r) /\ WellFormed(message[r]) /\ InvalidCriteria(message[r])) =>
      /\ queries[r] = <<>>
      /\ randomQuestion[r] = Undefined
      /\ (pc[r] = "Done" /\ Failed(r) = {}) =>
           \E i \in Published(r) : ReplyField(r, i, "status") = Str("error")

C5_NoUnhandledFault ==
  \A r \in Requests : pc[r] # "Threw"

\* C6: when the store returned nothing (null or an empty array) and no publish
\* failed, the one reply sent is status=error, data=null with the
\* no-questions-found message, and the catch block was not entered.
C6_NoMatchReply ==
  \A r \in Requests :
    (StoreReturnedNothing(r) /\ Failed(r) = {}) =>
      /\ Len(sends[r]) = 1
      /\ IsReply(r, 1, "error", NoQuestionsMessage)
      /\ ReplyField(r, 1, "data") = Null
      /\ err[r] = NoError
      /\ pc[r] \in {"Replying", "Done"}
      /\ \A i \in DOMAIN log[r] : log[r][i] # "error: Error processing request"
      /\ pc[r] = "Done" => Published(r) = {1}

C6_Witness ==
  \E r1, r2 \in Requests :
    /\ pc[r1] = "Done" /\ randomQuestion[r1] = Null /\ Published(r1) = {1}
    /\ pc[r2] = "Done" /\ randomQuestion[r2] = Arr(<<>>) /\ Published(r2) = {1}
    /\ ~InvalidCriteria(message[r2])

\* The data of a success reply for a returned row: the public fields the row
\* defines, each with the row's value, and nothing else.
IsPublicCopy(data, row) ==
  /\ data.t = "object"
  /\ DOMAIN data.v = PublicFields \cap DOMAIN row.v
  /\ \A k \in DOMAIN data.v : data.v[k] = row.v[k]

\* C7: a status=success reply is only ever sent for a request whose store
\* query returned a non-empty result, with the public copy of the first row as
\* data and the message 'Question found successfully.'; and when no publish
\* failed, a finished request has a published success reply exactly when its
\* store query returned a non-empty result.
C7_SuccessIffRecord ==
  \A r \in Requests :
    /\ \A i \in DOMAIN sends[r] :
         ReplyField(r, i, "status") = Str("success") =>
           /\ StoreReturnedRecord(r)
           /\ IsReply(r, i, "success", FoundMessage)
           /\ IsPublicCopy(ReplyField(r, i, "data"), randomQuestion[r].v[1])
    /\ (pc[r] = "Done" /\ Failed(r) = {}) =>
         ((\E i \in Published(r) : ReplyField(r, i, "status") = Str("success"))
            <=> StoreReturnedRecord(r))

C7_Witness ==
  \E r \in Requests :
    /\ pc[r] = "Done" /\ Failed(r) = {}
    /\ randomQuestion[r] = Arr(<<Q2>>)
    /\ \E i \in Published(r) :
         /\ ReplyField(r, i, "status") = Str("success")
         /\ Get(ReplyField(r, i, "data"), "title") = Str("Clone Graph")

\* C8: when the store query throws, every reply sent is status=error,
\* data=null with the fixed internal-error message, and two requests with the
\* same message whose store queries threw (different errors or not) send the
\* same replies.
C8_GenericErrorReply ==
  /\ \A r \in Requests :
       StoreThrew(r) =>
         /\ sends[r] # <<>>
         /\ \A i \in DOMAIN sends[r] :
              /\ IsReply(r, i, "error", InternalErrorMessage)
              /\ ReplyField(r, i, "data") = Null
  /\ \A r1, r2 \in Requests :
       (StoreThrew(r1) /\ StoreThrew(r2) /\ message[r1] = message[r2]) =>
         sends[r1][1].value = sends[r2][1].value

C8_Witness ==
  \E r1, r2 \in Requests :
    /\ StoreThrew(r1) /\ StoreThrew(r2)
    /\ err[r1] # err[r2]
    /\ message[r1] = message[r2]
    /\ Published(r1) = {1} /\ Published(r2) = {1}

\* C9: with the store query and every publish call eventually returning or
\* throwing, a request that reached the store query eventually is done, having
\* published a reply or logged the critical publish failure.
C9_EventuallyDone ==
  \A r \in Requests :
    (pc[r] = "Selecting") ~>
      (pc[r] = "Done" /\ (Published(r) # {} \/ LoggedCritical(r)))

C9_Witness ==
  \E r1, r2 \in Requests :
    /\ pc[r1] = "Done" /\ Published(r1) = {} /\ LoggedCritical(r1)
    /\ pc[r2] = "Done" /\ Published(r2) # {} /\ ~LoggedCritical(r2)

\* C10 (as claimed): the handler makes at most one publish attempt for a
\* request.
C10_AtMostOnePublishAttempt ==
  \A r \in Requests : Len(sends[r]) <= 1


\* C11 (as claimed): every failed publish attempt is the last attempt of its
\* request and is followed by the critical log and the end of the handler.
C11_FailedPublishIsFinal ==
  \A r \in Requests :
    \A i \in Failed(r) :
      /\ i = Len(sends[r])
      /\ LoggedCritical(r)
      /\ pc[r] = "Done"

\* The reply a request sends first follows from its own message and its own
\* store outcome; the reply it sends second, from its own first publish
\* having failed.
IsOwnReply(r, i) ==
  /\ i <= 2
  /\ i = 2 => 1 \in Failed(r) /\ ~StoreThrew(r)
  /\ IF i = 2 \/ StoreThrew(r)
       THEN /\ IsReply(r, i, "error", InternalErrorMessage)
            /\ ReplyField(r, i, "data") = Null
     ELSE IF StoreReturnedNothing(r)
       THEN /\ IsReply(r, i, "error", NoQuestionsMessage)
            /\ ReplyField(r, i, "data") = Null
     ELSE /\ StoreReturnedRecord(r)
          /\ IsReply(r, i, "success", FoundMessage)
          /\ IsPublicCopy(ReplyField(r, i, "data"), randomQuestion[r].v[1])

\* Two requests had the same store and publish outcomes, as far as they got.
SameOutcomes(r1, r2) ==
  /\ randomQuestion[r1] = randomQuestion[r2]
  /\ StoreThrew(r1) <=> StoreThrew(r2)
  /\ Len(sends[r1]) = Len(sends[r2])
  /\ \A i \in DOMAIN sends[r1] : sends[r1][i].outcome = sends[r2][i].outcome

\* Two requests were given the same message and had the same store and
\* publish outcomes.
SameRun(r1, r2) ==
  /\ message[r1] = message[r2]
  /\ SameOutcomes(r1, r2)

\* C12: in every interleaving of the handlers, each reply of a request follows
\* from that request's own message and its own store and publish outcomes; no
\* reply carries the correlationId of another request with a different id; and
\* requests with the same message and outcomes send the same replies, as they
\* do when handled one after another.
C12_RequestsIsolated ==
  /\ \A r \in Requests : \A i \in DOMAIN sends[r] : IsOwnReply(r, i)
  /\ \A r1, r2 \in Requests :
       message[r1].correlationId # message[r2].correlationId =>
         \A i \in DOMAIN sends[r1] :
           ReplyField(r1, i, "correlationId") # message[r2].correlationId
  /\ \A r1, r2 \in Requests :
       SameRun(r1, r2) =>
         \A i \in DOMAIN sends[r1] : sends[r1][i].value = sends[r2][i].value

\* The request delivered second has published its reply while the one
\* delivered first still awaits its publish; their ids and rows differ.
C12_Witness ==
  /\ pc[1] = "Replying" /\ pc[2] = "Done"
  /\ message[1].correlationId = Str("abc-1")
  /\ message[2].correlationId = Undefined
  /\ randomQuestion[1] = Arr(<<Q1>>) /\ randomQuestion[2] = Arr(<<Q2>>)
  /\ 1 \in Failed(2) /\ 2 \in Published(2)


\* C13: the same well-formed message delivered twice, with no publish failing
\* and the store answering both queries (or failing both), gets two published
\* replies, one for each delivery, with the request's correlationId and the
\* same status; the second delivery is not suppressed.
C13_DuplicateDelivery ==
  \A r1, r2 \in Requests :
    ( /\ r1 # r2
      /\ message[r1] = message[r2]
      /\ WellFormed(message[r1])
      /\ pc[r1] = "Done" /\ pc[r2] = "Done"
      /\ Failed(r1) = {} /\ Failed(r2) = {}
      /\ StoreThrew(r1) <=> StoreThrew(r2) ) =>
        /\ Published(r1) = {1} /\ Published(r2) = {1}
        /\ ReplyField(r1, 1, "correlationId") = message[r1].correlationId
        /\ ReplyField(r2, 1, "correlationId") = message[r1].correlationId
        /\ ReplyField(r1, 1, "status") = ReplyField(r2, 1, "status")

C13_Witness ==
  /\ message[1] = message[2]
  /\ message[1].correlationId = Str("abc-1")
  /\ pc[1] = "Done" /\ pc[2] = "Done"
  /\ randomQuestion[1] = Arr(<<Q1>>) /\ randomQuestion[2] = Arr(<<Q2>>)
  /\ Published(1) = {1} /\ Published(2) = {1}
  /\ ReplyField(1, 1, "status") = Str("success")
  /\ ReplyField(2, 1, "status") = Str("success")

\* C14: the record in the data of a status=success reply has the requested
\* difficulty and has the requested (first) topic among its topics.
C14_ReplyMatchesCriteria ==
  \A r \in Requests :
    \A i \in DOMAIN sends[r] :
      ReplyField(r, i, "status") = Str("success") =>
        LET data == ReplyField(r, i, "data")
            topics == Get(message[r].meta, "topics")
        IN  /\ Get(data, "difficulty") = Get(message[r].meta, "difficulty")
            /\ topics.t = "array" /\ Len(topics.v) > 0
            /\ \E j \in 1..Len(Get(data, "topics").v) :
                 Get(data, "topics").v[j] = topics.v[1]

C14_Witness ==
  \E r \in Requests :
    /\ Get(message[r].meta, "topics") = Arr(<<Str("Graphs"), Str("Arrays")>>)
    /\ \E i \in Published(r) :
         /\ ReplyField(r, i, "status") = Str("success")
         /\ Get(ReplyField(r, i, "data"), "id") = Str("q2")

\* C16 (as claimed): a published reply carries the internal-error message only
\* when the store query of its request threw.
C16_InternalErrorOnlyOnStoreFault ==
  \A r \in Requests :
    \A i \in Published(r) :
      ReplyField(r, i, "message") = Str(InternalErrorMessage) => StoreThrew(r)


\* The first of the request's topics, undefined when the list is empty.
FirstTopic(m) ==
  LET topics == Get(m.meta, "topics")
  IN  IF topics.t = "array" /\ Len(topics.v) >= 1 THEN topics.v[1] ELSE Undefined

\* C17: the one store query of a request is (meta.difficulty, meta.topics[0]);
\* two requests that differ only in the topics after the first issue the same
\* query and, with the same store and publish outcomes, send the same replies.
C17_OnlyFirstTopic ==
  /\ \A r \in Requests :
       queries[r] # <<>> =>
         queries[r] = << <<Get(message[r].meta, "difficulty"), FirstTopic(message[r])>> >>
  /\ \A r1, r2 \in Requests :
       ( /\ Delivered(r1) /\ Delivered(r2)
         /\ WellFormed(message[r1]) /\ WellFormed(message[r2])
         /\ message[r1].correlationId = message[r2].correlationId
         /\ Get(message[r1].meta, "difficulty") = Get(message[r2].meta, "difficulty")
         /\ FirstTopic(message[r1]) = FirstTopic(message[r2]) ) =>
           /\ queries[r1] = queries[r2]
           /\ SameOutcomes(r1, r2) =>
                \A i \in DOMAIN sends[r1] : sends[r1][i].value = sends[r2][i].value

C17_Witness ==
  \E r1, r2 \in Requests :
    /\ message[r1].correlationId = message[r2].correlationId
    /\ Get(message[r1].meta, "topics") = Arr(<<Str("Graphs")>>)
    /\ Get(message[r2].meta, "topics") = Arr(<<Str("Graphs"), Str("Arrays")>>)
    /\ queries[r2] = << <<Str("Easy"), Str("Graphs")>> >>
    /\ randomQuestion[r1] = Arr(<<Q2>>) /\ randomQuestion[r2] = Arr(<<Q2>>)
    /\ Published(r1) = {1} /\ Published(r2) = {1}
    /\ sends[r1][1].value = sends[r2][1].value

\* C18: within a request the store is queried at most once, no publish is
\* attempted while the query is outstanding or before it was issued, and
\* every publish attempt comes after the query returned or threw (so no query
\* follows a publish attempt).
C18_StrictlySequential ==
  \A r \in Requests :
    /\ Len(queries[r]) <= 1
    /\ pc[r] = "Selecting" => (Len(queries[r]) = 1 /\ sends[r] = <<>>)
    /\ sends[r] # <<>> =>
         /\ Len(queries[r]) = 1
         /\ pc[r] \in {"Replying", "ReplyingError", "Done"}
         /\ StoreThrew(r) \/ StoreReturnedRecord(r) \/ StoreReturnedNothing(r)

C18_Witness ==
  \E r \in Requests :
    /\ pc[r] = "Done"
    /\ Len(queries[r]) = 1
    /\ Len(sends[r]) = 2
    /\ StoreReturnedRecord(r)

\* C19: every message the handler sends goes to question-replies, has status
\* success or error and a non-empty message, and has null data exactly when
\* its status is error (a record when it is success).
C19_ReplyShape ==
  \A r \in Requests :
    \A i \in DOMAIN sends[r] :
      LET status == ReplyField(r, i, "status")
          data == ReplyField(r, i, "data")
          text == ReplyField(r, i, "message")
      IN  /\ sends[r][i].topic = "question-replies"
          /\ status \in {Str("success"), Str("error")}
          /\ text.t = "string" /\ text.v # ""
          /\ data = Null <=> status = Str("error")
          /\ status = Str("success") => (data.t = "object" /\ Get(data, "title") # Undefined)

C19_Witness ==
  \E r1, r2 \in Requests :
    /\ \E i \in Published(r1) :
         ReplyField(r1, i, "status") = Str("success") /\ ReplyField(r1, i, "data") # Null
    /\ \E i \in Published(r2) :
         ReplyField(r2, i, "status") = Str("error") /\ ReplyField(r2, i, "data") = Null
    /\ StoreReturnedNothing(r2)

\* C20: two requests that differ only in correlationId issue the same store
\* query and, with the same store and publish outcomes, are at the same point
\* of the handler, having run the same log statements, with replies equal in status,
\* data and message.
C20_CorrelationIdOpaque ==
  \A r1, r2 \in Requests :
    (Delivered(r1) /\ Delivered(r2) /\ message[r1].meta = message[r2].meta) =>
      /\ queries[r1] = queries[r2]
      /\ SameOutcomes(r1, r2) =>
           /\ pc[r1] = pc[r2]
           /\ log[r1] = log[r2]
           /\ \A i \in DOMAIN sends[r1] :
                /\ ReplyField(r1, i, "status") = ReplyField(r2, i, "status")
                /\ ReplyField(r1, i, "data") = ReplyField(r2, i, "data")
                /\ ReplyField(r1, i, "message") = ReplyField(r2, i, "message")

C20_Witness ==
  \E r1, r2 \in Requests :
    /\ message[r1].correlationId = Str("abc-1")
    /\ message[r2].correlationId = Undefined
    /\ message[r1].meta = message[r2].meta
    /\ pc[r1] = "Done" /\ pc[r2] = "Done"
    /\ randomQuestion[r1] = Arr(<<Q1>>) /\ randomQuestion[r2] = Arr(<<Q1>>)
    /\ Published(r1) = {1} /\ Published(r2) = {1}


\* C21: handling matching requests never changes the question store: on
\* every path of the handler (malformed, no match, success, store fault,
\* publish fault) the stored records are those stored before the handler
\* was called.
C21_StoreUntouched ==
  store = InitialStore

C21_Witness ==
  \E r1, r2 \in Requests :
    /\ pc[r1] = "Done" /\ StoreReturnedRecord(r1) /\ Published(r1) = {1}
    /\ pc[r2] = "Done" /\ StoreThrew(r2) /\ Failed(r2) = {1}


\* The document an HTTP read handler answered with.
ServedRow == IF hreq.handler = "getRandomQuestion" THEN Index0(hrow) ELSE hrow

\* The matching request carries the criteria of the HTTP query.
SameCriteria ==
  /\ hreq.handler = "getRandomQuestion"
  /\ HasMeta(message[1])
  /\ Get(message[1].meta, "difficulty") = Get(hreq.query, "difficulty")
  /\ Get(message[1].meta, "topics") = Arr(<<Get(hreq.query, "topics")>>)

\* C22: the data of a 200 response of getQuestion or getRandomQuestion is
\* formatQuestionResponse of the served document, which has exactly the
\* twelve public fields, and a match success reply for the same document
\* carries the same data.
C22_SharedFormat ==
  hres.status = 200 =>
    /\ DOMAIN formatQuestionResponse(ServedRow).v = PublicFields
    /\ DOMAIN Get(hres.body, "data").v \subseteq PublicFields
    /\ IsPublicCopy(Get(hres.body, "data"), ServedRow)
    /\ \A i \in DOMAIN sends[1] :
         ( /\ ReplyField(1, i, "status") = Str("success")
           /\ Index0(randomQuestion[1]) = ServedRow ) =>
             ReplyField(1, i, "data") = Get(hres.body, "data")

C22_Witness ==
  /\ hres.status = 200
  /\ hreq.handler = "getRandomQuestion"
  /\ ServedRow = Q2
  /\ Index0(randomQuestion[1]) = Q2
  /\ 1 \in Published(1)
  /\ ReplyField(1, 1, "data") = Get(hres.body, "data")

\* The value is one of the recognized ones.
Recognized(x, list) == x.t = "string" /\ x.v \in list

\* C26: getRandomQuestion queries the store only when difficulty and topic
\* are both present and recognized, and then once with that pair; for a
\* missing or unrecognized value it responds 404 without a store query; it
\* responds 200 only when the store returned a non-empty result.
C26_HttpValidation ==
  hreq.handler = "getRandomQuestion" =>
    LET d == Get(hreq.query, "difficulty")
        t == Get(hreq.query, "topics")
        valid == Recognized(d, {"Easy", "Medium", "Hard"}) /\ Recognized(t, TOPICS)
    IN  /\ hqueries # <<>> => (valid /\ hqueries = << <<d, t>> >>)
        /\ ~valid => (hpc = "Done" /\ hres.status = 404 /\ hqueries = <<>>)
        /\ hres.status = 200 =>
             (hrow.t = "array" /\ Len(hrow.v) > 0 /\ hqueries # <<>>)

C26_Witness ==
  /\ hreq.handler = "getRandomQuestion"
  /\ Get(hreq.query, "difficulty") = Str("Easy")
  /\ Get(hreq.query, "topics") = Str("Sorting")
  /\ hres.status = 404
  /\ hqueries = <<>>

\* C27: for the same store and the same (difficulty, topic), with no store
\* or publish fault on either path, getRandomQuestion responds 200 exactly
\* when handleMatchingRequest with topics=[topic] publishes status=success,
\* also for the pairs getRandomQuestion rejects as invalid.
C27_SameClassification ==
  ( /\ SameCriteria
    /\ hpc = "Done" /\ hres.status # 500
    /\ pc[1] \in {"Done", "Threw"}
    /\ ~StoreThrew(1) /\ Failed(1) = {} ) =>
      (hres.status = 200
         <=> \E i \in Published(1) : ReplyField(1, i, "status") = Str("success"))

C27_Witness ==
  /\ SameCriteria
  /\ Get(hreq.query, "difficulty") = Str("Extreme")
  /\ hres.status = 404 /\ hqueries = <<>>
  /\ pc[1] = "Done" /\ Len(queries[1]) = 1
  /\ Published(1) = {1}
  /\ ReplyField(1, 1, "status") = Str("error")


\* The statuses of a rejected call.
Rejections == {400, 404, 409}

\* C23: after any interleaving of createQuestion and updateQuestion calls no
\* two stored questions share a title.
C23_UniqueTitles ==
  \A a, b \in store : Get(a, "title") = Get(b, "title") => a = b

\* C24: after any interleaving of updateQuestion calls no image key that the
\* examples of a stored question still reference has been destroyed.
C24_ReferencedKeysKept ==
  \A doc \in store : \A c \in Calls :
    collectImageKeys(Get(doc, "examples")) \cap destroyed[c] = {}

\* C25: a call that answered 400, 404 or 409 has inserted no document, has
\* updated no document and has destroyed no image key.
C25_RejectedWritesNothing ==
  \A c \in Calls :
    cres[c].status \in Rejections =>
      /\ \A doc \in store : Get(doc, "_id") # Str(NewIds[c])
      /\ updatedQuestion[c] = Undefined
      /\ destroyed[c] = {}

\* A call has been rejected with 404 or 409 after another call wrote to the
\* store.
C25_Witness ==
  /\ store # CrudStore
  /\ \E c \in Calls : cres[c].status \in {404, 409}

\* C28: the timeout passed to the repository is an integer that is at least
\* 1: a supplied integer that is at least 1 is passed unchanged, and a
\* supplied integer that is 0 or less, a missing timeout and a non-numeric
\* one are replaced by 1.
C28_TimeoutAtLeastOne ==
  \A c \in Calls :
    writeArgs[c] # Undefined =>
      LET supplied == Get(creq[c].body, "timeout")
          passed == Get(writeArgs[c], "timeout")
      IN  /\ passed.t = "number"
          /\ passed.v \in Nat \ {0}
          /\ supplied.t = "number" /\ supplied.v >= 1 => passed = supplied
          /\ supplied.t = "number" /\ supplied.v <= 0 => passed = Num(1)
          /\ supplied \in {Undefined, Str("abc")} => passed = Num(1)

\* A create that supplied the timeout 0 has passed a timeout to the
\* repository and answered 201.
C28_Witness ==
  \E c \in Calls :
    /\ writeArgs[c] # Undefined
    /\ Get(creq[c].body, "timeout") = Num(0)
    /\ cres[c].status = 201


\* C29: onSubmit sends a save request only when no save is in progress, no
\* image upload is in progress and validate() finds no error.
C29_SavesOnlyWhenReady ==
  [][Len(api') > Len(api) =>
       /\ api = <<>>
       /\ \A idx \in ExampleIndexes : uploads[idx] = 0
       /\ validate(form) = <<>>]_vars

\* C29: a form that is saving stops saving, after a success, an API failure
\* and a test case that does not parse.
C29_SavingEnds == saving ~> ~saving

\* C29: at most one save request is in flight, and the form is saving while
\* it is.
C29_OneSave == Len(api) <= 1 /\ (api # <<>> => saving)


\* C30: handleStartMatch is only called while isQueueing is false and with
\* at least one selected topic, and while isQueueing is true no step changes
\* the selected difficulty or the selected topics.
C30_QueueingFreezes ==
  /\ [](started # Undefined => ~started.queueing /\ started.topics # <<>>)
  /\ [][isQueueing => UNCHANGED <<selectedDifficulty, selectedTopics>>]_vars

\* A match was started with two topics and PContent is queueing.
C30_Witness ==
  /\ started # Undefined
  /\ Len(started.topics) = 2
  /\ isQueueing

====
